---- MODULE Spec2Model ----
(***************************************************************************)
(* Linked editing ranges of the editor crate:                              *)
(* crates/editor/src/linked_editing_ranges.rs.                             *)
(*                                                                         *)
(* The index LinkedEditingRanges (a HashMap from BufferId to a Vec of      *)
(* (range, siblings) pairs), its lookup get, is_empty, and the refresh     *)
(* cycle started by refresh_linked_ranges: collect the applicable          *)
(* selections, spawn a task, ask the provider once per selection, link the *)
(* answers as siblings, and install them in one synchronous block.         *)
(*                                                                         *)
(* An Option is a sequence of length at most one: None is <<>> and         *)
(* Some(x) is <<x>>.  An anchor is a number; anchors of one buffer are     *)
(* totally ordered and the order is the same under every snapshot.         *)
(***************************************************************************)
EXTENDS Integers, Sequences, FiniteSets, TLC

\* Bounds of the model.
MaxAnchor == 1
MaxEdits == 2
MaxSelections == 2

BufferIds == {1, 2}
Anchors == 0..MaxAnchor

None == <<>>
Some(x) == <<x>>

\* Range<text::Anchor>, as the provider and the editor's selections make them.
Ranges == {r \in [start : Anchors, end : Anchors] : r.start <= r.end}

\* text::Anchor::cmp under a snapshot: -1 (Less), 0 (Equal), 1 (Greater).
AnchorCmp(a, b) == IF a < b THEN -1 ELSE IF a > b THEN 1 ELSE 0

\* AnchorRangeExt::cmp: by start, the end breaking ties.
RangeCmp(lhs, rhs) ==
    IF AnchorCmp(lhs.start, rhs.start) # 0
    THEN AnchorCmp(lhs.start, rhs.start)
    ELSE AnchorCmp(rhs.end, lhs.end)

\* A (Range, Vec<Range>) pair of the index: .0 is the primary, .1 the siblings.
Primary(group) == group[1]
Siblings(group) == group[2]

RECURSIVE SeqsUpTo(_, _)
SeqsUpTo(S, n) ==
    IF n = 0 THEN {<<>>}
    ELSE LET shorter == SeqsUpTo(S, n - 1)
         IN shorter \cup {Append(s, x) : s \in {t \in shorter : Len(t) = n - 1}, x \in S}

\* What project.linked_edit may answer with: any list of ranges.
Edits == SeqsUpTo(Ranges, MaxEdits)

\* A multibuffer position: the buffer it lies in and the anchor in that
\* buffer.  The multibuffer lays buffer 1 out before buffer 2.
Positions == [buffer : BufferIds, anchor : Anchors]
\* The position of the cursor of a multibuffer that holds no excerpt.
NoExcerpt == [buffer |-> 0, anchor |-> 0]
PositionLess(p, q) ==
    \/ p.buffer < q.buffer
    \/ p.buffer = q.buffer /\ p.anchor < q.anchor

\* Selection<usize>: start <= end, and reversed when the head is the start.
Selections ==
    {sel \in [start : Positions, end : Positions, reversed : BOOLEAN] :
        \/ PositionLess(sel.start, sel.end)
        \/ sel.start = sel.end /\ ~sel.reversed}
SelectionHead(selection) == IF selection.reversed THEN selection.start ELSE selection.end
SelectionTail(selection) == IF selection.reversed THEN selection.end ELSE selection.start

\* this.selections.all(): at least one selection, the selections disjoint
\* and in the order of their positions.
SelectionSets ==
    {sels \in SeqsUpTo(Selections, MaxSelections) :
        /\ sels # <<>>
        /\ \A k \in 1..(Len(sels) - 1) : PositionLess(sels[k].end, sels[k + 1].start)}
    \cup {<<[start |-> NoExcerpt, end |-> NoExcerpt, reversed |-> FALSE]>>}

(***************************************************************************)
(* LinkedEditingRanges::get and is_empty.                                  *)
(***************************************************************************)

\* slice::partition_point by binary search over ranges[left+1 .. right]
\* for the predicate range.start <= anchor.start.
RECURSIVE PartitionPoint(_, _, _, _)
PartitionPoint(ranges, anchor, left, right) ==
    IF left >= right THEN left
    ELSE LET mid == left + ((right - left) \div 2)
         IN IF AnchorCmp(Primary(ranges[mid + 1]).start, anchor.start) <= 0
            THEN PartitionPoint(ranges, anchor, mid + 1, right)
            ELSE PartitionPoint(ranges, anchor, left, mid)

\* Mutant of Get: the filter on range.end is left out.
GetMissesEnd(index, id, anchor) ==
    IF id \notin DOMAIN index THEN None
    ELSE LET ranges_for_buffer == index[id]
             lower_bound == PartitionPoint(ranges_for_buffer, anchor, 0,
                                           Len(ranges_for_buffer))
         IN IF lower_bound = 0 THEN None
            ELSE Some(ranges_for_buffer[lower_bound])

Get(index, id, anchor) ==
    IF id \notin DOMAIN index THEN None
    ELSE LET ranges_for_buffer == index[id]
             lower_bound == PartitionPoint(ranges_for_buffer, anchor, 0,
                                           Len(ranges_for_buffer))
         IN IF lower_bound = 0 THEN None
            ELSE IF AnchorCmp(Primary(ranges_for_buffer[lower_bound]).end,
                              anchor.end) >= 0
                 THEN Some(ranges_for_buffer[lower_bound])
                 ELSE None

IsEmpty(index) == DOMAIN index = {}

(***************************************************************************)
(* The answer of one request turned into a sorted batch of groups.         *)
(***************************************************************************)

\* itertools combinations(2): the index pairs i < j in lexicographic order.
RECURSIVE CombinationsFrom(_, _, _)
CombinationsFrom(i, j, n) ==
    IF i >= n THEN <<>>
    ELSE IF j > n THEN CombinationsFrom(i + 1, i + 2, n)
         ELSE <<<<i, j>>>> \o CombinationsFrom(i, j + 1, n)

Combinations2(edits) ==
    LET pairs == CombinationsFrom(1, 2, Len(edits))
    IN [k \in 1..Len(pairs) |-> <<edits[pairs[k][1]], edits[pairs[k][2]]>>]

\* The calls of insert_sorted_anchor, in order: (first, second), (second, first).
RECURSIVE InsertCalls(_)
InsertCalls(items) ==
    IF items = <<>> THEN <<>>
    ELSE <<[key |-> Head(items)[1], value |-> Head(items)[2]],
           [key |-> Head(items)[2], value |-> Head(items)[1]]>>
         \o InsertCalls(Tail(items))

\* siblings.entry(key).or_default(): the values pushed under key, in order.
SiblingsEntry(calls, key) ==
    LET mine == SelectSeq(calls, LAMBDA c : c.key = key)
    IN [k \in 1..Len(mine) |-> mine[k].value]

\* Stable insertion of x into a list sorted by RangeCmp of the primaries.
InsertSorted(sorted, x) ==
    SelectSeq(sorted, LAMBDA e : RangeCmp(Primary(e), Primary(x)) <= 0)
    \o <<x>>
    \o SelectSeq(sorted, LAMBDA e : RangeCmp(Primary(e), Primary(x)) > 0)

\* Vec::sort_by(|lhs, rhs| lhs.0.cmp(&rhs.0, &snapshot)): a stable sort.
RECURSIVE SortByPrimary(_)
SortByPrimary(values) ==
    IF Len(values) <= 1 THEN values
    ELSE InsertSorted(SortByPrimary(SubSeq(values, 1, Len(values) - 1)),
                      values[Len(values)])

\* The HashMap's entries in some order, as a list.
RECURSIVE EntriesOf(_, _)
EntriesOf(keys, calls) ==
    IF keys = {} THEN <<>>
    ELSE LET key == CHOOSE k \in keys : TRUE
         IN <<<<key, SiblingsEntry(calls, key)>>>> \o EntriesOf(keys \ {key}, calls)

\* Mutant of LinkSiblings: only insert_sorted_anchor(&first, &second) is called.
RECURSIVE InsertCallsOneWay(_)
InsertCallsOneWay(items) ==
    IF items = <<>> THEN <<>>
    ELSE <<[key |-> Head(items)[1], value |-> Head(items)[2]]>>
         \o InsertCallsOneWay(Tail(items))

LinkSiblingsOneWay(edits) ==
    LET calls == InsertCallsOneWay(Combinations2(edits))
        keys == {calls[k].key : k \in 1..Len(calls)}
    IN SortByPrimary(EntriesOf(keys, calls))

\* Every range linked with every other one, then sorted.
LinkSiblings(edits) ==
    LET calls == InsertCalls(Combinations2(edits))
        keys == {calls[k].key : k \in 1..Len(calls)}
    IN SortByPrimary(EntriesOf(keys, calls))

\* The containment test of the `find`: start is the selection's head, end its tail.
RangeContainsSelection(range, start, end) ==
    AnchorCmp(range.start, start) <= 0 /\ AnchorCmp(range.end, end) >= 0

\* Mutant of Highlights: a failed request yields a batch without groups.
HighlightsFailureAsEmptyBatch(buffer_id, start, end, response) ==
    IF response = None THEN Some([buffer_id |-> buffer_id, ranges |-> <<>>])
    ELSE LET edits == response[1]
         IN IF \A k \in 1..Len(edits) : ~RangeContainsSelection(edits[k], start, end)
            THEN None
            ELSE Some([buffer_id |-> buffer_id, ranges |-> LinkSiblings(edits)])

\* The `highlights` future of one request once the provider has answered
\* (response is None for a failed request, logged and dropped).
Highlights(buffer_id, start, end, response) ==
    IF response = None THEN None
    ELSE LET edits == response[1]
         IN IF \A k \in 1..Len(edits) : ~RangeContainsSelection(edits[k], start, end)
            THEN None
            ELSE Some([buffer_id |-> buffer_id, ranges |-> LinkSiblings(edits)])

(***************************************************************************)
(* The install: clear, extend per buffer, sort per buffer.                 *)
(***************************************************************************)

\* highlights.into_iter().flatten()
RECURSIVE Flatten(_)
Flatten(highlights) ==
    IF highlights = <<>> THEN <<>>
    ELSE Head(highlights) \o Flatten(Tail(highlights))

\* entry(buffer_id).or_default().extend(ranges), for every batch in order.
RECURSIVE Extended(_, _)
Extended(batches, buffer_id) ==
    IF batches = <<>> THEN <<>>
    ELSE (IF Head(batches).buffer_id = buffer_id THEN Head(batches).ranges ELSE <<>>)
         \o Extended(Tail(batches), buffer_id)

\* Mutant of ClearedIndex: the entries of the cycle before are kept.
KeptIndex(index) == index

\* this.linked_edit_ranges.0.clear()
ClearedIndex(index) == <<>>

\* The entries a buffer has in the map, none when it has no key.
EntriesIn(index, id) == IF id \in DOMAIN index THEN index[id] ELSE <<>>

\* Mutant of InstallIndex: the entries are left as they were appended.
InstallWithoutSort(index, highlights, snapshotted) ==
    LET batches == Flatten(highlights)
        ids == DOMAIN index \cup {batches[k].buffer_id : k \in 1..Len(batches)}
    IN [id \in ids |-> EntriesIn(index, id) \o Extended(batches, id)]

\* The map after the two loops of the block of this.update: every batch is
\* appended under its buffer, then every buffer of the map that the
\* multibuffer still holds is sorted (the others are skipped by `continue`).
InstallIndex(index, highlights, snapshotted) ==
    LET batches == Flatten(highlights)
        ids == DOMAIN index \cup {batches[k].buffer_id : k \in 1..Len(batches)}
    IN [id \in ids |->
          IF id \in snapshotted
          THEN SortByPrimary(EntriesIn(index, id) \o Extended(batches, id))
          ELSE EntriesIn(index, id) \o Extended(batches, id)]

(***************************************************************************)
(* The editor's state and the refresh cycle.                               *)
(***************************************************************************)

VARIABLES
    linked_edit_ranges, \* this.linked_edit_ranges.0: BufferId -> Vec of groups
    pending_rename,     \* this.pending_rename.is_some()
    project,            \* this.project.is_some()
    tasks,              \* the spawned futures still alive; `held` marks the one
                        \* whose handle is this.linked_editing_range_task
    event,              \* the last step taken and what went through it
    probe               \* the answer given to a cycle of one applicable selection

vars == <<linked_edit_ranges, pending_rename, project, tasks, event, probe>>

Event(op) == [op |-> op, highlights |-> <<>>, snapshotted |-> {},
              superseded |-> FALSE, rename_seen |-> FALSE,
              selections |-> <<>>, failed |-> {}, dropped |-> {},
              rerun |-> FALSE, notified |-> 0]

EmptyIndex == <<>>

Init ==
    /\ linked_edit_ranges = EmptyIndex
    /\ pending_rename = FALSE
    /\ project \in BOOLEAN
    /\ tasks = {}
    /\ event = Event("init")
    /\ probe = None

\* buffer.text_anchor_for_position: None when no excerpt holds the position.
TextAnchorForPosition(position) ==
    IF position.buffer \in BufferIds THEN Some(position) ELSE None

\* Mutant of ApplicableSelections: the loop ends at the first selection whose
\* head and tail lie in different buffers.
RECURSIVE ApplicableUntilCrossBuffer(_)
ApplicableUntilCrossBuffer(selections) ==
    IF selections = <<>> THEN <<>>
    ELSE LET cursor == SelectionHead(Head(selections))
             tail == SelectionTail(Head(selections))
         IN IF cursor.buffer # tail.buffer
            THEN <<>>
            ELSE <<[buffer |-> cursor.buffer,
                    start |-> cursor.anchor,
                    end |-> tail.anchor]>>
                 \o ApplicableUntilCrossBuffer(Tail(selections))

\* The loop over the selections: the ones whose head and tail lie in one
\* buffer, as (cursor_buffer, start_position, end_position).
RECURSIVE ApplicableSelections(_)
ApplicableSelections(selections) ==
    IF selections = <<>> THEN <<>>
    ELSE LET cursor == SelectionHead(Head(selections))
             tail == SelectionTail(Head(selections))
         IN (IF cursor.buffer # tail.buffer
             THEN <<>>
             ELSE <<[buffer |-> cursor.buffer,
                     start |-> cursor.anchor,
                     end |-> tail.anchor]>>)
            \o ApplicableSelections(Tail(selections))

\* cx.spawn: the future starts with every request still to be issued.
SpawnedTask(applicable_selections) ==
    [pc |-> "spawned",
     slots |-> [k \in 1..Len(applicable_selections) |->
                  [sel |-> Some(applicable_selections[k]), out |-> None,
                   failed |-> FALSE]],
     held |-> TRUE,
     rename_seen |-> FALSE]

\* Dropping the Task handle the editor holds cancels its future: it is
\* never polled again.
DropTask(live) == {t \in live : ~t.held}

\* Mutant of ReplaceTask: the task held before is detached, not dropped.
SpawnDetachingOld(live, task) == {[t EXCEPT !.held = FALSE] : t \in live} \cup {task}

\* this.linked_editing_range_task = Some(task): the handle held before is
\* dropped and the new one is held.
ReplaceTask(live, task) == DropTask(live) \cup {task}

\* Mutant of RenamePendingAtRefresh: the early return is missing.
RenameIgnoredAtRefresh == FALSE

\* The check of this.pending_rename at the head of refresh_linked_ranges.
RenamePendingAtRefresh == pending_rename

\* Mutant of TaskAfterEarlyReturn: the handle is given up on the way out.
TaskDroppedOnEarlyReturn(live) == {t \in live : ~t.held}

\* The task handle after an early return of refresh_linked_ranges: every
\* return precedes the assignment of this.linked_editing_range_task.
TaskAfterEarlyReturn(live) == live

\* refresh_linked_ranges up to its return: the early returns, or the spawn.
RefreshLinkedRanges(selections) ==
    IF RenamePendingAtRefresh
    THEN /\ event' = Event("refresh_rename_pending")
         /\ tasks' = TaskAfterEarlyReturn(tasks)
         /\ UNCHANGED <<linked_edit_ranges, pending_rename, project, probe>>
    ELSE IF ~project
    THEN /\ event' = Event("refresh_no_project")
         /\ tasks' = TaskAfterEarlyReturn(tasks)
         /\ UNCHANGED <<linked_edit_ranges, pending_rename, project, probe>>
    ELSE IF \E k \in 1..Len(selections) :
               \/ TextAnchorForPosition(SelectionHead(selections[k])) = None
               \/ TextAnchorForPosition(SelectionTail(selections[k])) = None
    THEN /\ event' = Event("refresh_unresolved")
         /\ tasks' = TaskAfterEarlyReturn(tasks)
         /\ UNCHANGED <<linked_edit_ranges, pending_rename, project, probe>>
    ELSE /\ tasks' = ReplaceTask(tasks, SpawnedTask(ApplicableSelections(selections)))
         /\ probe' = None
         /\ event' = [Event("refresh_spawned") EXCEPT
                        !.superseded = \E t \in tasks : t.held,
                        !.selections = selections]
         /\ UNCHANGED <<linked_edit_ranges, pending_rename, project>>

\* Mutant of NothingApplicable: the early return of the future is missing.
NothingApplicableIgnored(task) == FALSE

\* applicable_selections.is_empty()
NothingApplicable(task) == task.slots = <<>>

\* The first poll of the future: return when nothing is applicable, else
\* issue one project.linked_edit request per applicable selection.
TaskStart(task) ==
    /\ task \in tasks
    /\ task.pc = "spawned"
    /\ IF NothingApplicable(task)
       THEN /\ tasks' = tasks \ {task}
            /\ event' = Event("task_nothing_applicable")
       ELSE /\ tasks' = (tasks \ {task}) \cup {[task EXCEPT !.pc = "fetching"]}
            /\ event' = Event("task_requests_issued")
    /\ UNCHANGED <<linked_edit_ranges, pending_rename, project, probe>>

\* One linked_edits_task completes, with Err (None) or with a list of ranges,
\* and its `highlights` future runs to its end.
ProviderResponds(task, i, response) ==
    /\ task \in tasks
    /\ task.pc = "fetching"
    /\ i \in 1..Len(task.slots)
    /\ task.slots[i].sel # None
    /\ LET sel == task.slots[i].sel[1]
           highlight == Highlights(sel.buffer, sel.start, sel.end, response)
       IN /\ tasks' = (tasks \ {task}) \cup
                      {[task EXCEPT !.slots[i] =
                                       [sel |-> None, out |-> Some(highlight),
                                        failed |-> response = None]]}
          /\ probe' = IF task.held /\ Len(task.slots) = 1
                      THEN Some([sel |-> sel, response |-> response])
                      ELSE probe
    /\ event' = Event("provider_responds")
    /\ UNCHANGED <<linked_edit_ranges, pending_rename, project>>

\* Mutant of AllAnswered: join_all never completes.
NeverJoined(task) == FALSE

\* Every future handed to join_all has completed.
AllAnswered(task) ==
    /\ task.pc = "fetching"
    /\ \A k \in 1..Len(task.slots) : task.slots[k].out # None

\* join_all(highlights).await, once every request has answered.
JoinAll(task) == [k \in 1..Len(task.slots) |-> task.slots[k].out[1]]

\* Mutant of RenamePendingAtInstall: the check is missing.
RenameIgnoredAtInstall == FALSE

\* The check of this.pending_rename at the head of the install block.
RenamePendingAtInstall == pending_rename

\* Mutant of NotifyCount: cx.notify() precedes the check of the rename.
NotifyBeforeRenameCheck(installed) == 1

\* The calls of cx.notify() made by the block of this.update: the one at
\* its end, which the early return on a pending rename never reaches.
NotifyCount(installed) == IF installed THEN 1 ELSE 0

\* The requests of the task that answered with an error.
FailedSlots(task) == {k \in 1..Len(task.slots) : task.slots[k].failed}

\* The block of this.update after join_all: nothing when a rename is
\* pending, else clear, extend, sort and notify.  snapshotted are the
\* buffers this.buffer holds at that moment.
TaskInstall(task, snapshotted) ==
    /\ task \in tasks
    /\ AllAnswered(task)
    /\ tasks' = tasks \ {task}
    /\ IF RenamePendingAtInstall
       THEN /\ event' = [Event("install_rename_pending") EXCEPT
                           !.highlights = JoinAll(task),
                           !.rename_seen = task.rename_seen,
                           !.notified = NotifyCount(FALSE)]
            /\ UNCHANGED linked_edit_ranges
       ELSE /\ linked_edit_ranges' =
                  InstallIndex(ClearedIndex(linked_edit_ranges), JoinAll(task), snapshotted)
            /\ event' = [Event("install") EXCEPT
                           !.highlights = JoinAll(task),
                           !.snapshotted = snapshotted,
                           !.rename_seen = task.rename_seen,
                           !.failed = FailedSlots(task),
                           !.dropped = DOMAIN linked_edit_ranges \
                                         DOMAIN InstallIndex(<<>>, JoinAll(task), snapshotted),
                           !.rerun = /\ linked_edit_ranges # <<>>
                                     /\ linked_edit_ranges =
                                          InstallIndex(<<>>, JoinAll(task), snapshotted),
                           !.notified = NotifyCount(TRUE)]
    /\ UNCHANGED <<pending_rename, project, probe>>

\* A rename begins: the flag is set and the index is cleared.
BeginRename ==
    /\ ~pending_rename
    /\ pending_rename' = TRUE
    /\ linked_edit_ranges' = EmptyIndex
    /\ tasks' = {[t EXCEPT !.rename_seen = TRUE] : t \in tasks}
    /\ event' = Event("begin_rename")
    /\ UNCHANGED <<project, probe>>

\* The rename ends (confirmed or dismissed).
EndRename ==
    /\ pending_rename
    /\ pending_rename' = FALSE
    /\ event' = Event("end_rename")
    /\ UNCHANGED <<linked_edit_ranges, project, tasks, probe>>

Next ==
    \/ \E selections \in SelectionSets : RefreshLinkedRanges(selections)
    \/ \E task \in tasks : TaskStart(task)
    \/ \E task \in tasks : \E i \in 1..MaxSelections :
          \E response \in {None} \cup {Some(edits) : edits \in Edits} :
             ProviderResponds(task, i, response)
    \/ \E task \in tasks : \E snapshotted \in SUBSET BufferIds :
          TaskInstall(task, snapshotted)
    \/ BeginRename
    \/ EndRename

Spec == Init /\ [][Next]_vars

\* The refresh cycle under fair scheduling, for the progress of a cycle.
\* Progress depends on no anchor value, so the inputs are cursors (empty
\* selections), and answers that fail or hold empty ranges only.
CursorSets ==
    {sels \in SelectionSets : \A k \in 1..Len(sels) : sels[k].start = sels[k].end}

Answers ==
    {None} \cup {Some(edits) : edits \in
                    {e \in Edits : \A k \in 1..Len(e) : e[k].start = e[k].end}}

Refresh == \E selections \in CursorSets : RefreshLinkedRanges(selections)

FirstPoll == \E task \in tasks : TaskStart(task)

Answer ==
    \E task \in tasks : \E i \in 1..MaxSelections : \E response \in Answers :
       ProviderResponds(task, i, response)

Install ==
    \E task \in tasks : \E snapshotted \in SUBSET BufferIds :
       TaskInstall(task, snapshotted)

FairNext ==
    \/ Refresh
    \/ FirstPoll
    \/ Answer
    \/ Install
    \/ BeginRename
    \/ EndRename

\* The executor polls a future that can make progress, and every request
\* the provider was sent is answered.
Fairness == WF_vars(FirstPoll) /\ WF_vars(Answer) /\ WF_vars(Install)

FairSpec == Init /\ [][FairNext]_vars /\ Fairness

(***************************************************************************)
(* Properties.                                                             *)
(***************************************************************************)

RefreshOps == {"refresh_rename_pending", "refresh_no_project",
               "refresh_unresolved", "refresh_spawned"}

\* The sort/non-overlap invariant of one buffer's entries, as the
\* specification words it: starts strictly ascending, and each end at or
\* before the next start.
SortedNonOverlapping(entries) ==
    \A k \in 1..(Len(entries) - 1) :
        /\ Primary(entries[k]).start < Primary(entries[k + 1]).start
        /\ Primary(entries[k]).end <= Primary(entries[k + 1]).start

\* The invariant as the comment on the struct words it:
\* [x + 1].start > [x].end.
SortedStrictlyApart(entries) ==
    \A k \in 1..(Len(entries) - 1) :
        /\ Primary(entries[k]).start < Primary(entries[k + 1]).start
        /\ Primary(entries[k]).end < Primary(entries[k + 1]).start

Apart(r1, r2) == r1.end < r2.start \/ r2.end < r1.start

\* The ranges a batch links.
BatchRanges(batch) == {Primary(batch.ranges[k]) : k \in 1..Len(batch.ranges)}

\* The batches come from a provider whose link groups hold distinct ranges
\* that lie apart, two groups being the same group or lying apart.
FromDisjointLinkGroups(highlights) ==
    LET batches == Flatten(highlights)
    IN /\ \A k \in 1..Len(batches) :
             /\ \A r1, r2 \in BatchRanges(batches[k]) : r1 = r2 \/ Apart(r1, r2)
             /\ \A j \in 1..Len(batches[k].ranges) :
                   LET group == batches[k].ranges[j]
                       sibs == {Siblings(group)[m] : m \in 1..Len(Siblings(group))}
                   IN /\ sibs = BatchRanges(batches[k]) \ {Primary(group)}
                      /\ Len(Siblings(group)) = Cardinality(sibs)
       /\ \A k, m \in 1..Len(batches) :
             \/ batches[k].buffer_id # batches[m].buffer_id
             \/ BatchRanges(batches[k]) = BatchRanges(batches[m])
             \/ \A r1 \in BatchRanges(batches[k]), r2 \in BatchRanges(batches[m]) :
                   Apart(r1, r2)

\* C1: after an install whose batches come from a provider with disjoint
\* link groups, the entries of every buffer (here: every buffer the install
\* could snapshot, and so sorted) are strictly sorted by primary.start with
\* each primary.end at or before the next primary.start.
C1_SortedAfterInstall ==
    (event.op = "install" /\ FromDisjointLinkGroups(event.highlights))
    => \A id \in DOMAIN linked_edit_ranges \cap event.snapshotted :
          SortedNonOverlapping(linked_edit_ranges[id])

\* A linear scan for a group whose primary contains the range.
LinearScan(index, id, anchor) ==
    IF id \notin DOMAIN index THEN None
    ELSE LET containing ==
                 {k \in 1..Len(index[id]) :
                     /\ Primary(index[id][k]).start <= anchor.start
                     /\ anchor.end <= Primary(index[id][k]).end}
         IN IF containing = {} THEN None
            ELSE Some(index[id][CHOOSE k \in containing :
                                   \A m \in containing : k <= m])

\* The buffer ids a lookup may name: the known ones and one never indexed.
LookupIds == BufferIds \cup {0}

\* C2 as claimed: whenever a buffer's entries satisfy the sort/non-overlap
\* invariant (ends at or before the next start), get equals the linear scan
\* for a containing primary, for every range and every buffer id.
C2_GetEqualsLinearScan ==
    \A id \in LookupIds : \A anchor \in Ranges :
        (id \in DOMAIN linked_edit_ranges
            => SortedNonOverlapping(linked_edit_ranges[id]))
        => Get(linked_edit_ranges, id, anchor) = LinearScan(linked_edit_ranges, id, anchor)

\* C2 amended: whenever a buffer's entries are sorted and strictly apart
\* ([x + 1].start > [x].end), get equals the linear scan for a containing
\* primary, for every range and every buffer id (None for an unknown id).
C2_GetEqualsLinearScanStrict ==
    \A id \in LookupIds : \A anchor \in Ranges :
        (id \in DOMAIN linked_edit_ranges
            => SortedStrictlyApart(linked_edit_ranges[id]))
        => Get(linked_edit_ranges, id, anchor) = LinearScan(linked_edit_ranges, id, anchor)

\* A buffer holds two groups strictly apart; get finds a group for one range
\* inside a primary and nothing for a range that spans the gap.
C2_Witness ==
    \E id \in DOMAIN linked_edit_ranges :
        /\ Len(linked_edit_ranges[id]) >= 2
        /\ SortedStrictlyApart(linked_edit_ranges[id])
        /\ \E anchor \in Ranges :
              Get(linked_edit_ranges, id, anchor) = Some(linked_edit_ranges[id][2])
        /\ \E anchor \in Ranges : Get(linked_edit_ranges, id, anchor) = None

\* C3: every live future is the one whose handle the editor holds and there
\* is at most one; right after a refresh has spawned, the only live future
\* is the new one; and the index changes only by the install of that held
\* future (or by the clearing when a rename begins).
C3_OnlyNewestCycleLive ==
    [][/\ \A t \in tasks' : t.held
       /\ Cardinality(tasks') <= 1
       /\ (event'.op = "refresh_spawned" => \A t \in tasks' : t.pc = "spawned")
       /\ (linked_edit_ranges' # linked_edit_ranges =>
             \/ event'.op = "begin_rename"
             \/ /\ event'.op = "install"
                /\ \E t \in tasks : t.held /\ AllAnswered(t)
                                    /\ event'.highlights = JoinAll(t))]_vars

\* A refresh has replaced a cycle that was still in flight.
C3_Witness == event.op = "refresh_spawned" /\ event.superseded

\* C4: a call of refresh_linked_ranges made while a rename is pending takes
\* the early return: the index and the live futures are what they were, so
\* no cycle starts and no request is issued.
C4_RenamePendingAtStart ==
    [][(pending_rename /\ event'.op \in RefreshOps)
       => /\ event'.op = "refresh_rename_pending"
          /\ UNCHANGED <<linked_edit_ranges, tasks, pending_rename>>]_vars

\* A refresh returned early for a pending rename while a cycle was in flight.
C4_Witness == event.op = "refresh_rename_pending" /\ tasks # {}

\* C5 as claimed: a cycle that saw a rename begin between its start and its
\* install has its output discarded, whether or not the rename is still
\* pending: if its install block runs at all, it installs no batch.
C5_DiscardedOnceRenameSeen ==
    (event.op = "install" /\ event.rename_seen) => Flatten(event.highlights) = <<>>

\* C5 amended: when a rename is pending at the moment the install block
\* runs, the index is left untouched and the cycle is over with nothing
\* installed.
C5_DiscardedWhileRenamePending ==
    [][(pending_rename /\ event'.op \in {"install", "install_rename_pending"})
       => /\ event'.op = "install_rename_pending"
          /\ UNCHANGED linked_edit_ranges
          /\ tasks' = {}]_vars

\* A cycle with groups to install reached its install during a rename.
C5_Witness ==
    /\ event.op = "install_rename_pending"
    /\ Flatten(event.highlights) # <<>>
    /\ \E k \in 1..Len(Flatten(event.highlights)) :
          Flatten(event.highlights)[k].ranges # <<>>

Count(entries, group) == Cardinality({k \in 1..Len(entries) : entries[k] = group})

IsSortedByPrimary(entries) ==
    \A j, k \in 1..Len(entries) :
        j < k => RangeCmp(Primary(entries[j]), Primary(entries[k])) <= 0

\* The index is the whole outcome of one install: exactly the buffers with a
\* batch, each holding exactly the appended entries, sorted where the
\* buffer could be snapshotted.
FullyInstalled(index, highlights, snapshotted) ==
    LET batches == Flatten(highlights)
    IN /\ DOMAIN index = {batches[k].buffer_id : k \in 1..Len(batches)}
       /\ \A id \in DOMAIN index :
             /\ Len(index[id]) = Len(Extended(batches, id))
             /\ \A k \in 1..Len(index[id]) :
                   Count(index[id], index[id][k])
                   = Count(Extended(batches, id), index[id][k])
             /\ IF id \in snapshotted
                THEN IsSortedByPrimary(index[id])
                ELSE index[id] = Extended(batches, id)

SelectionStart(sel) == IF sel.start <= sel.end THEN sel.start ELSE sel.end
SelectionEnd(sel) == IF sel.start <= sel.end THEN sel.end ELSE sel.start

SomeRangeContains(edits, sel) ==
    \E k \in 1..Len(edits) :
        /\ edits[k].start <= SelectionStart(sel)
        /\ edits[k].end >= SelectionEnd(sel)

Distinct(edits) == \A j, k \in 1..Len(edits) : j # k => edits[j] # edits[k]

\* The cycle just installed had one applicable selection, and the provider
\* answered it with a list of ranges.
SingleAnswerInstalled ==
    /\ event.op = "install"
    /\ probe # None
    /\ probe[1].response # None

\* C7: after the install of a cycle with one applicable selection whose
\* answer is n >= 2 distinct ranges, one of them containing the selection,
\* the buffer's entries are the n ranges, each primary once with n - 1
\* siblings, and any two ranges are siblings of each other.
C7_CliqueInstalled ==
    (/\ SingleAnswerInstalled
     /\ Len(probe[1].response[1]) >= 2
     /\ Distinct(probe[1].response[1])
     /\ SomeRangeContains(probe[1].response[1], probe[1].sel))
    => LET edits == probe[1].response[1]
           id == probe[1].sel.buffer
       IN /\ id \in DOMAIN linked_edit_ranges
          /\ Len(linked_edit_ranges[id]) = Len(edits)
          /\ \A j \in 1..Len(edits) :
                \E k \in 1..Len(linked_edit_ranges[id]) :
                    LET group == linked_edit_ranges[id][k]
                    IN /\ Primary(group) = edits[j]
                       /\ Len(Siblings(group)) = Len(edits) - 1
                       /\ \A m \in 1..Len(edits) :
                             m # j => \E n \in 1..Len(Siblings(group)) :
                                         Siblings(group)[n] = edits[m]
                       /\ \A m \in 1..Len(linked_edit_ranges[id]) :
                             Primary(linked_edit_ranges[id][m]) = edits[j] => m = k

\* Such a cycle has installed, for a selection that is not empty.
C7_Witness ==
    /\ SingleAnswerInstalled
    /\ Len(probe[1].response[1]) >= 2
    /\ Distinct(probe[1].response[1])
    /\ SomeRangeContains(probe[1].response[1], probe[1].sel)
    /\ probe[1].sel.start # probe[1].sel.end
    /\ probe[1].sel.buffer \in DOMAIN linked_edit_ranges

\* C8: no group's sibling list contains the group's own primary.
C8_NoSelfSibling ==
    \A id \in DOMAIN linked_edit_ranges :
        \A k \in 1..Len(linked_edit_ranges[id]) :
            LET group == linked_edit_ranges[id][k]
            IN \A n \in 1..Len(Siblings(group)) : Siblings(group)[n] # Primary(group)

\* C9: after the install of a cycle with one applicable selection whose
\* answer holds no range containing the selection, the index holds no group.
C9_NoGroupsWithoutContainingRange ==
    (SingleAnswerInstalled
     /\ ~SomeRangeContains(probe[1].response[1], probe[1].sel))
    => \A id \in DOMAIN linked_edit_ranges : linked_edit_ranges[id] = <<>>

\* C10: is_empty() is true exactly when no buffer of the index holds a group.
C10_IsEmptyIffNoGroups ==
    IsEmpty(linked_edit_ranges)
    <=> \A id \in DOMAIN linked_edit_ranges : linked_edit_ranges[id] = <<>>

\* The buffers for which a cycle's highlights hold a batch.
BatchIds(highlights) ==
    {Flatten(highlights)[k].buffer_id : k \in 1..Len(Flatten(highlights))}

\* C11, as claimed: an install replaces the entries only of the buffers the
\* cycle touched; every buffer that had entries before and produced no batch
\* in this cycle has exactly the same entries after the install.
C11_UntouchedBuffersKept ==
    [][event'.op = "install" =>
          \A id \in DOMAIN linked_edit_ranges \ BatchIds(event'.highlights) :
             /\ id \in DOMAIN linked_edit_ranges'
             /\ linked_edit_ranges'[id] = linked_edit_ranges[id]]_vars

\* C11, amended: an install replaces the whole index; every buffer that had
\* entries before the install and produced no batch in this cycle has no
\* entries after it, and only buffers with a batch have any.
C11_UntouchedBuffersDropped ==
    [][event'.op = "install" =>
          /\ \A id \in DOMAIN linked_edit_ranges \ BatchIds(event'.highlights) :
                id \notin DOMAIN linked_edit_ranges'
          /\ DOMAIN linked_edit_ranges' \subseteq BatchIds(event'.highlights)]_vars

\* An install went through while a buffer without a batch had entries.
C11_Witness ==
    /\ event.op = "install"
    /\ event.dropped # {}
    /\ BatchIds(event.highlights) # {}

\* The batches of the requests outside `failed`, in the order of the requests.
RECURSIVE BatchesOutside(_, _, _)
BatchesOutside(highlights, failed, k) ==
    IF k > Len(highlights) THEN <<>>
    ELSE (IF k \in failed \/ highlights[k] = None THEN <<>> ELSE <<highlights[k][1]>>)
         \o BatchesOutside(highlights, failed, k + 1)

\* The index holds exactly the given batches: the buffers of the batches,
\* each with the entries of its batches, sorted where it could be snapshotted.
InstalledFrom(index, batches, snapshotted) ==
    /\ DOMAIN index = {batches[k].buffer_id : k \in 1..Len(batches)}
    /\ \A id \in DOMAIN index :
          /\ Len(index[id]) = Len(Extended(batches, id))
          /\ \A k \in 1..Len(index[id]) :
                Count(index[id], index[id][k]) = Count(Extended(batches, id), index[id][k])
          /\ IF id \in snapshotted
             THEN IsSortedByPrimary(index[id])
             ELSE index[id] = Extended(batches, id)

\* C12: a failed request counts as answered and contributes nothing, so the
\* cycle reaches its install; the index installed by a cycle of several
\* requests of which some failed holds exactly the batches of the other
\* requests, as a cycle without the failed selections would have installed.
C12_FailedRequestContributesNothing ==
    /\ \A t \in tasks : \A k \in 1..Len(t.slots) :
          t.slots[k].failed => t.slots[k].out = Some(None)
    /\ (event.op = "install" /\ Len(event.highlights) >= 2 /\ event.failed # {}) =>
          /\ \A k \in event.failed : event.highlights[k] = None
          /\ InstalledFrom(linked_edit_ranges,
                           BatchesOutside(event.highlights, event.failed, 1),
                           event.snapshotted)

\* A cycle of two requests installed the groups of one while the other failed.
C12_Witness ==
    /\ event.op = "install"
    /\ Len(event.highlights) = 2
    /\ Cardinality(event.failed) = 1
    /\ \E id \in DOMAIN linked_edit_ranges : linked_edit_ranges[id] # <<>>

\* The selections of a refresh whose head and tail lie in one buffer.
SameBuffer(selections) ==
    {k \in 1..Len(selections) :
        SelectionHead(selections[k]).buffer = SelectionTail(selections[k]).buffer}

\* C13: the cycle a refresh spawns has one request slot per selection whose
\* head and tail lie in one buffer, in the order of the selections, and none
\* for a selection that spans two buffers: that selection causes no request
\* and contributes nothing, and the selections after it are still collected.
C13_CrossBufferSelectionSkipped ==
    event.op = "refresh_spawned" =>
       \E t \in tasks :
          /\ t.held /\ t.pc = "spawned"
          /\ Len(t.slots) = Cardinality(SameBuffer(event.selections))
          /\ \A k \in SameBuffer(event.selections) :
                LET rank == Cardinality({j \in SameBuffer(event.selections) : j <= k})
                IN t.slots[rank].sel =
                      Some([buffer |-> SelectionHead(event.selections[k]).buffer,
                            start |-> SelectionHead(event.selections[k]).anchor,
                            end |-> SelectionTail(event.selections[k]).anchor])

\* A refresh whose first selection spans two buffers spawned a cycle with a
\* request slot for the selection after it.
C13_Witness ==
    /\ event.op = "refresh_spawned"
    /\ Len(event.selections) = 2
    /\ 1 \notin SameBuffer(event.selections)
    /\ 2 \in SameBuffer(event.selections)
    /\ \E t \in tasks : t.held /\ Len(t.slots) = 1

\* Two indexes with the same buffers, the same primaries in the same order
\* and, under each primary, the same siblings in any order.
SameIndex(left, right) ==
    /\ DOMAIN left = DOMAIN right
    /\ \A id \in DOMAIN left :
          /\ Len(left[id]) = Len(right[id])
          /\ \A k \in 1..Len(left[id]) :
                /\ Primary(left[id][k]) = Primary(right[id][k])
                /\ Len(Siblings(left[id][k])) = Len(Siblings(right[id][k]))
                /\ \A r \in Ranges :
                      Count(Siblings(left[id][k]), r) = Count(Siblings(right[id][k]), r)

\* C14: when a cycle installs over an index that is itself the install of the
\* same verified answers for the same snapshottable buffers (the cycle is a
\* second run of the one before), the index after the install equals the
\* index before it, up to the order inside the sibling lists.
C14_SecondRunInstallsSameIndex ==
    [][(/\ event'.op = "install"
        /\ linked_edit_ranges # EmptyIndex
        /\ linked_edit_ranges =
             InstallIndex(EmptyIndex, event'.highlights, event'.snapshotted))
       => SameIndex(linked_edit_ranges', linked_edit_ranges)]_vars

\* A second run installed over the first run's index, which held a group
\* with a sibling.
C14_Witness ==
    /\ event.op = "install"
    /\ event.rerun
    /\ \E id \in DOMAIN linked_edit_ranges : \E k \in 1..Len(linked_edit_ranges[id]) :
          Siblings(linked_edit_ranges[id][k]) # <<>>

\* C15: the step in which a cycle installs calls cx.notify() once, and no
\* other step calls it: not a refresh that returns early or supersedes a
\* cycle, not a cycle without applicable selections, not a cycle that finds
\* a rename pending at its install check.
C15_NotifiedExactlyOnInstall ==
    /\ event.op = "install" => event.notified = 1
    /\ event.op # "install" => event.notified = 0
    /\ event.op \in {"refresh_rename_pending", "install_rename_pending",
                     "task_nothing_applicable", "refresh_spawned"}
          => event.notified = 0

\* An install notified after a cycle that answered with at least one batch.
C15_Witness ==
    /\ event.op = "install"
    /\ event.notified = 1
    /\ Flatten(event.highlights) # <<>>
    /\ ~event.rename_seen

\* C16, as claimed: after an install the index holds no entries for a buffer
\* that produced a batch in the cycle and could not be snapshotted at the
\* install.
C16_UnsnapshottedBufferAbsent ==
    event.op = "install" =>
       \A id \in BatchIds(event.highlights) \ event.snapshotted :
          \/ id \notin DOMAIN linked_edit_ranges
          \/ linked_edit_ranges[id] = <<>>

\* C17: a cycle without applicable selections never issues a request (its
\* only step is the return of its first poll), and that step leaves the
\* index as it was and ends the cycle.
C17_NothingApplicableNoEffect ==
    [][/\ \A t \in tasks' : t.slots = <<>> => t.pc = "spawned"
       /\ event'.op = "task_nothing_applicable" =>
             /\ linked_edit_ranges' = linked_edit_ranges
             /\ \A t \in tasks' : t.slots # <<>>]_vars

\* A cycle without applicable selections has returned and the groups an
\* earlier cycle installed are still in the index.
C17_Witness ==
    /\ event.op = "task_nothing_applicable"
    /\ \E id \in DOMAIN linked_edit_ranges : linked_edit_ranges[id] # <<>>

\* No newer cycle starts and no rename is pending.
Undisturbed == event.op # "refresh_spawned" /\ ~pending_rename

\* C18: a cycle installs only once every one of its requests has answered
\* and there was at least one; a cycle with requests ends only by its
\* install block or by being superseded; and, the requests being answered
\* and the future polled, if from some point on no newer cycle starts and no
\* rename is pending, the cycle reaches its install and none stays in flight.
C18_InstallAfterAllAnswered ==
    /\ [][/\ event'.op = "install" =>
               \E t \in tasks \ tasks' :
                  /\ t.slots # <<>>
                  /\ \A k \in 1..Len(t.slots) : t.slots[k].out # None
          /\ (linked_edit_ranges' # linked_edit_ranges) =>
               event'.op \in {"install", "begin_rename"}
          /\ \A t \in tasks :
               (t.held /\ t.slots # <<>> /\ ~(\E u \in tasks' : u.held)) =>
                  \/ event'.op = "install" /\ ~pending_rename
                  \/ event'.op = "install_rename_pending" /\ pending_rename]_vars
    /\ (<>[]Undisturbed => <>[](tasks = {}))

\* A cycle of two requests has installed.
C18_Witness ==
    /\ event.op = "install"
    /\ Len(event.highlights) = 2
    /\ \A k \in 1..2 : event.highlights[k] # None

\* C19: within a buffer the sibling relation is closed and symmetric: for
\* every group (P, S) of the buffer and every range s of S the buffer holds
\* a group whose primary is s and whose siblings include P.
C19_SiblingsSymmetric ==
    \A id \in DOMAIN linked_edit_ranges :
       \A k \in 1..Len(linked_edit_ranges[id]) :
          LET group == linked_edit_ranges[id][k]
          IN \A j \in 1..Len(Siblings(group)) :
                \E n \in 1..Len(linked_edit_ranges[id]) :
                   /\ Primary(linked_edit_ranges[id][n]) = Siblings(group)[j]
                   /\ \E q \in 1..Len(Siblings(linked_edit_ranges[id][n])) :
                         Siblings(linked_edit_ranges[id][n])[q] = Primary(group)

\* The index holds two groups with different primaries that name each other.
C19_Witness ==
    \E id \in DOMAIN linked_edit_ranges :
       \E k, n \in 1..Len(linked_edit_ranges[id]) :
          /\ Primary(linked_edit_ranges[id][k]) # Primary(linked_edit_ranges[id][n])
          /\ \E j \in 1..Len(Siblings(linked_edit_ranges[id][k])) :
                Siblings(linked_edit_ranges[id][k])[j] = Primary(linked_edit_ranges[id][n])
          /\ \E q \in 1..Len(Siblings(linked_edit_ranges[id][n])) :
                Siblings(linked_edit_ranges[id][n])[q] = Primary(linked_edit_ranges[id][k])

EarlyReturnOps == {"refresh_rename_pending", "refresh_no_project", "refresh_unresolved"}

\* C20: a refresh that returns early leaves the task handle, and so the
\* cycle in flight, as it was (and the index too); and when the install
\* block of the live cycle runs, join_all having returned, it installs
\* exactly if no rename is pending at that moment.
C20_EarlyReturnKeepsLiveCycle ==
    [][/\ event'.op \in EarlyReturnOps =>
             /\ tasks' = tasks
             /\ linked_edit_ranges' = linked_edit_ranges
       /\ event'.op \in {"install", "install_rename_pending"} =>
             /\ \E t \in tasks \ tasks' : t.held /\ AllAnswered(t)
             /\ event'.op = "install" <=> ~pending_rename]_vars

\* A refresh has returned early on an unresolvable position while a cycle
\* whose requests have all answered is in flight, still held and free to
\* install.
C20_Witness ==
    /\ event.op = "refresh_unresolved"
    /\ ~pending_rename
    /\ \E t \in tasks : t.held /\ AllAnswered(t) /\ Len(t.slots) = 2

====
